---- MODULE Spec2Model ----
(***************************************************************************)
(* A model of vidagent (cmd/vidagent/main.go): the filter-file lexer       *)
(* (getTokens), the action builder (getActions, ParseTime, ParseReason),   *)
(* the segment validator (validateSegmentTimes), the ffmpeg filter         *)
(* compiler (buildComplexFilter) and the driver (main).                    *)
(*                                                                         *)
(* Text is a sequence of one-character strings.  A time is counted in      *)
(* ticks of 1/TicksPerSecond second; TicksPerSecond is a power of two, so  *)
(* every value of the model is exactly representable in the float32 that   *)
(* strconv.ParseFloat(.., 32) returns and in the float64 arithmetic of     *)
(* Time.SecondNum, and the comparisons and the "%.2f" rendering below are  *)
(* the ones the Go program computes on those values.                       *)
(***************************************************************************)
EXTENDS Integers, Sequences, FiniteSets, TLC

(***************************************************************************)
(* Text helpers (package strings / unicode)                                *)
(***************************************************************************)

\* unicode.IsSpace, on the alphabet of the model
IsSpace(ch) == ch = " "

RECURSIVE TrimLeft(_)
TrimLeft(v) ==
    IF v # <<>> /\ IsSpace(Head(v)) THEN TrimLeft(Tail(v)) ELSE v

RECURSIVE TrimRight(_)
TrimRight(v) ==
    IF v # <<>> /\ IsSpace(v[Len(v)]) THEN TrimRight(SubSeq(v, 1, Len(v) - 1)) ELSE v

\* strings.TrimSpace
TrimSpace(v) == TrimRight(TrimLeft(v))

\* strings.ToLower, on the alphabet of the model
ToLowerChar(ch) ==
    CASE ch = "C" -> "c"
      [] ch = "U" -> "u"
      [] ch = "T" -> "t"
      [] ch = "M" -> "m"
      [] ch = "E" -> "e"
      [] OTHER -> ch

ToLower(v) == [i \in DOMAIN v |-> ToLowerChar(v[i])]

\* strings.Split(v, sep) for a one-character separator
RECURSIVE SplitFrom(_, _, _)
SplitFrom(v, sep, cur) ==
    IF v = <<>> THEN <<cur>>
    ELSE IF Head(v) = sep THEN <<cur>> \o SplitFrom(Tail(v), sep, <<>>)
    ELSE SplitFrom(Tail(v), sep, Append(cur, Head(v)))

Split(v, sep) == SplitFrom(v, sep, <<>>)

(***************************************************************************)
(* Tokens and the lexer: getTokens                                         *)
(***************************************************************************)

\* token{linePos: lineNum, charPos: -1}
NewToken(lineNum) == [val |-> <<>>, linePos |-> lineNum, charPos |-> -1]

\* the state of the scan of one line: the field, the token being
\* accumulated, the tokens appended so far, whether the line was left by
\* "continue nextLine", and the lexer's error
LineStart(lineNum, tokens) ==
    [field |-> "verb", tkn |-> NewToken(lineNum), tokens |-> tokens,
     left |-> FALSE, err |-> "none"]

\* the closure saveTkn: trim, append, start a new token
saveTkn(st, lineNum) ==
    [st EXCEPT !.tokens = Append(st.tokens, [st.tkn EXCEPT !.val = TrimSpace(st.tkn.val)]),
               !.tkn = NewToken(lineNum)]

\* the tail of the loop body: skip leading space, record the column, accumulate
Accumulate(st, ch, charNum) ==
    IF st.tkn.val = <<>> /\ IsSpace(ch) THEN st
    ELSE [st EXCEPT !.tkn.charPos = IF st.tkn.charPos = -1 THEN charNum + 1 ELSE st.tkn.charPos,
                    !.tkn.val = Append(st.tkn.val, ch)]

\* LexChar with the scan of the line going on after the ')' of a reason
LexCharReasonContinues(st, ch, charNum, lineNum) ==
    IF st.left \/ st.err # "none" THEN st
    ELSE IF ch = "#" THEN [st EXCEPT !.left = TRUE]
    ELSE CASE st.field = "verb" ->
                IF IsSpace(ch) /\ st.tkn.val # <<>>
                THEN [saveTkn(st, lineNum) EXCEPT !.field = "start"]
                ELSE Accumulate(st, ch, charNum)
           [] st.field = "start" ->
                IF ch = "-" /\ st.tkn.val # <<>>
                THEN [saveTkn(st, lineNum) EXCEPT !.field = "end"]
                ELSE Accumulate(st, ch, charNum)
           [] st.field = "end" ->
                IF ch = "(" /\ st.tkn.val # <<>>
                THEN [saveTkn(st, lineNum) EXCEPT !.field = "reason"]
                ELSE Accumulate(st, ch, charNum)
           [] st.field = "reason" ->
                IF ch = ")"
                THEN saveTkn(st, lineNum)
                ELSE Accumulate(st, ch, charNum)
           [] OTHER -> [st EXCEPT !.err = "unexpected state"]

\* one iteration of "for charNum, ch := range line"
LexChar(st, ch, charNum, lineNum) ==
    IF st.left \/ st.err # "none" THEN st
    ELSE IF ch = "#" THEN [st EXCEPT !.left = TRUE]
    ELSE CASE st.field = "verb" ->
                IF IsSpace(ch) /\ st.tkn.val # <<>>
                THEN [saveTkn(st, lineNum) EXCEPT !.field = "start"]
                ELSE Accumulate(st, ch, charNum)
           [] st.field = "start" ->
                IF ch = "-" /\ st.tkn.val # <<>>
                THEN [saveTkn(st, lineNum) EXCEPT !.field = "end"]
                ELSE Accumulate(st, ch, charNum)
           [] st.field = "end" ->
                IF ch = "(" /\ st.tkn.val # <<>>
                THEN [saveTkn(st, lineNum) EXCEPT !.field = "reason"]
                ELSE Accumulate(st, ch, charNum)
           [] st.field = "reason" ->
                IF ch = ")"
                THEN [saveTkn(st, lineNum) EXCEPT !.left = TRUE]
                ELSE Accumulate(st, ch, charNum)
           [] OTHER -> [st EXCEPT !.err = "unexpected state"]

RECURSIVE LexChars(_, _, _, _)
LexChars(st, line, charNum, lineNum) ==
    IF charNum >= Len(line) THEN st
    ELSE LexChars(LexChar(st, line[charNum + 1], charNum, lineNum), line, charNum + 1, lineNum)

\* LexLine without the append of the token pending at the end of the line
LexLineNoFlush(line, lineNum, tokens) ==
    LexChars(LineStart(lineNum, tokens), line, 0, lineNum)

\* LexLine with the pending token appended also when the line was left
LexLineFlushAtComment(line, lineNum, tokens) ==
    LET st == LexChars(LineStart(lineNum, tokens), line, 0, lineNum) IN
    IF st.err # "none" \/ st.tkn.val = <<>> THEN st
    ELSE [st EXCEPT !.tokens = Append(st.tokens, [st.tkn EXCEPT !.val = TrimSpace(st.tkn.val)])]

\* the body of "for lineNum := 1; scanner.Scan(); lineNum += 1": the scan of
\* the characters, then the token pending at the end of the line, which is
\* appended only when the line was not left by "continue nextLine"
LexLine(line, lineNum, tokens) ==
    LET st == LexChars(LineStart(lineNum, tokens), line, 0, lineNum) IN
    IF st.err # "none" \/ st.left \/ st.tkn.val = <<>> THEN st
    ELSE [st EXCEPT !.tokens = Append(st.tokens, [st.tkn EXCEPT !.val = TrimSpace(st.tkn.val)])]

RECURSIVE LexLines(_, _, _)
LexLines(lines, lineNum, tokens) ==
    IF lineNum > Len(lines) THEN [tokens |-> tokens, err |-> "none"]
    ELSE LET st == LexLine(lines[lineNum], lineNum, tokens) IN
         IF st.err # "none" THEN [tokens |-> st.tokens, err |-> st.err]
         ELSE LexLines(lines, lineNum + 1, st.tokens)

\* getTokens: the tokens of the lines of the input and the error returned;
\* scanErr is what scanner.Err() returns ("none" or a read error)
getTokens(lines, scanErr) ==
    LET r == LexLines(lines, 1, <<>>) IN
    IF r.err # "none" THEN r ELSE [tokens |-> r.tokens, err |-> scanErr]

(***************************************************************************)
(* Time, Reason and their parsers                                          *)
(***************************************************************************)

\* the resolution of Time.Second: ticks per second (a power of two)
TicksPerSecond == 128

\* Time{}
ZeroTime == [Hour |-> 0, Minute |-> 0, Second |-> 0]

\* Time.SecondNum, in ticks
SecondNum(t) == (t.Hour * 60 * 60 + t.Minute * 60) * TicksPerSecond + t.Second

\* the integer nearest to n / d (d > 0, n >= 0), a tie going to the even one
RoundHalfEven(n, d) ==
    LET q == n \div d
        r == n % d
    IN  IF 2 * r < d THEN q
        ELSE IF 2 * r > d THEN q + 1
        ELSE IF q % 2 = 0 THEN q ELSE q + 1

\* Time.SecondString: fmt.Sprintf("%.2f", t.SecondNum()), as the number of
\* hundredths of a second that the string denotes
SecondString(t) ==
    LET n == SecondNum(t) IN
    IF n >= 0 THEN RoundHalfEven(100 * n, TicksPerSecond)
    ELSE 0 - RoundHalfEven(100 * (0 - n), TicksPerSecond)

Digits == {"0", "1", "2", "3", "4", "5", "6", "7", "8", "9"}

DigitVal(ch) ==
    CASE ch = "0" -> 0 [] ch = "1" -> 1 [] ch = "2" -> 2 [] ch = "3" -> 3
      [] ch = "4" -> 4 [] ch = "5" -> 5 [] ch = "6" -> 6 [] ch = "7" -> 7
      [] ch = "8" -> 8 [] ch = "9" -> 9

RECURSIVE DecimalVal(_, _)
DecimalVal(v, acc) ==
    IF v = <<>> THEN acc ELSE DecimalVal(Tail(v), 10 * acc + DigitVal(Head(v)))

\* strconv.Atoi on the alphabet of the model: an optional sign and digits
Atoi(v) ==
    LET signed == v # <<>> /\ Head(v) \in {"+", "-"}
        body == IF signed THEN Tail(v) ELSE v
    IN  IF body = <<>> \/ \E i \in DOMAIN body : body[i] \notin Digits
        THEN [ok |-> FALSE, val |-> 0]
        ELSE [ok |-> TRUE,
              val |-> IF signed /\ Head(v) = "-" THEN 0 - DecimalVal(body, 0)
                      ELSE DecimalVal(body, 0)]

\* strconv.ParseFloat(v, 32) on the alphabet of the model (no '.', no
\* exponent): a whole number of seconds, returned in ticks
ParseFloat(v) ==
    LET r == Atoi(v) IN [ok |-> r.ok, val |-> r.val * TicksPerSecond]

\* ParseTime
ParseTime(timeStr) ==
    LET str == TrimSpace(timeStr) IN
    IF str = <<>> THEN [err |-> "none", time |-> ZeroTime]
    ELSE
    LET split == Split(str, ":")
        parts == [i \in DOMAIN split |-> IF split[i] = <<>> THEN <<"0", "0">> ELSE split[i]]
        n     == Len(parts)
        bad(e) == [err |-> e, time |-> ZeroTime]
    IN  CASE n = 1 ->
               LET sec == ParseFloat(parts[1]) IN
               IF ~sec.ok THEN bad("bad second value")
               ELSE [err |-> "none", time |-> [Hour |-> 0, Minute |-> 0, Second |-> sec.val]]
          [] n = 2 ->
               LET min == Atoi(parts[1])
                   sec == ParseFloat(parts[2])
               IN  IF ~min.ok THEN bad("bad minute value")
                   ELSE IF ~sec.ok THEN bad("bad second value")
                   ELSE [err |-> "none",
                         time |-> [Hour |-> 0, Minute |-> min.val, Second |-> sec.val]]
          [] n = 3 ->
               LET hour == Atoi(parts[1])
                   min  == Atoi(parts[2])
                   sec  == ParseFloat(parts[3])
               IN  IF ~hour.ok THEN bad("bad hour value")
                   ELSE IF ~min.ok THEN bad("bad minute value")
                   ELSE IF ~sec.ok THEN bad("bad second value")
                   ELSE [err |-> "none",
                         time |-> [Hour |-> hour.val, Minute |-> min.val, Second |-> sec.val]]
          [] OTHER -> bad("bad time format")

\* Reason{}
ZeroReason == [Category |-> <<>>, Specifier |-> <<>>]

\* ParseReason
ParseReason(reasonStr) ==
    LET str == TrimSpace(reasonStr) IN
    IF str = <<>> THEN [err |-> "none", reason |-> ZeroReason]
    ELSE
    LET parts == Split(str, ":") IN
    CASE Len(parts) = 1 ->
           [err |-> "none",
            reason |-> [Category |-> TrimSpace(parts[1]), Specifier |-> <<>>]]
      [] Len(parts) = 2 ->
           [err |-> "none",
            reason |-> [Category |-> TrimSpace(parts[1]), Specifier |-> TrimSpace(parts[2])]]
      [] OTHER -> [err |-> "bad reason format", reason |-> ZeroReason]

(***************************************************************************)
(* Actions and the action builder: getActions                              *)
(***************************************************************************)

CutVerb == "cut"
MuteVerb == "mute"

\* the map verbs, as a function on the spellings it holds
verbs == (<<"c", "u", "t">> :> CutVerb) @@ (<<"m", "u", "t", "e">> :> MuteVerb)

\* action{}
ZeroAction ==
    [tokens |-> <<>>, verb |-> "", start |-> ZeroTime, end |-> ZeroTime,
     reason |-> ZeroReason]

\* ActionsStep with a token beyond the fourth taken as one more reason
ActionsStepNoCountCheck(st, tkn) ==
    IF st.err # "none" THEN st
    ELSE
    LET flush == tkn.linePos > st.line
        acts  == IF flush /\ Len(st.act.tokens) > 0 THEN Append(st.actions, st.act)
                 ELSE st.actions
        act   == IF flush THEN ZeroAction ELSE st.act
        line  == IF flush THEN tkn.linePos ELSE st.line
        cur   == [actions |-> acts, act |-> act, line |-> line, err |-> "none"]
        n     == Len(act.tokens)
        keep(a) == [cur EXCEPT !.act = [a EXCEPT !.tokens = Append(act.tokens, tkn)]]
        fail(e) == [cur EXCEPT !.err = e]
    IN  CASE n = 0 ->
               LET key == ToLower(tkn.val) IN
               IF key \notin DOMAIN verbs THEN fail("unrecognized verb")
               ELSE keep([act EXCEPT !.verb = verbs[key]])
          [] n = 1 ->
               LET r == ParseTime(tkn.val) IN
               IF r.err # "none" THEN fail("invalid start time")
               ELSE keep([act EXCEPT !.start = r.time])
          [] n = 2 ->
               LET r == ParseTime(tkn.val) IN
               IF r.err # "none" THEN fail("invalid end time")
               ELSE keep([act EXCEPT !.end = r.time])
          [] OTHER ->
               LET r == ParseReason(tkn.val) IN
               IF r.err # "none" THEN fail("invalid reason value")
               ELSE keep([act EXCEPT !.reason = r.reason])

\* one iteration of "for _, tkn := range tokens"; st holds actions, act,
\* line and the error returned
ActionsStep(st, tkn) ==
    IF st.err # "none" THEN st
    ELSE
    LET flush == tkn.linePos > st.line
        acts  == IF flush /\ Len(st.act.tokens) > 0 THEN Append(st.actions, st.act)
                 ELSE st.actions
        act   == IF flush THEN ZeroAction ELSE st.act
        line  == IF flush THEN tkn.linePos ELSE st.line
        cur   == [actions |-> acts, act |-> act, line |-> line, err |-> "none"]
        n     == Len(act.tokens)
        keep(a) == [cur EXCEPT !.act = [a EXCEPT !.tokens = Append(act.tokens, tkn)]]
        fail(e) == [cur EXCEPT !.err = e]
    IN  CASE n = 0 ->
               LET key == ToLower(tkn.val) IN
               IF key \notin DOMAIN verbs THEN fail("unrecognized verb")
               ELSE keep([act EXCEPT !.verb = verbs[key]])
          [] n = 1 ->
               LET r == ParseTime(tkn.val) IN
               IF r.err # "none" THEN fail("invalid start time")
               ELSE keep([act EXCEPT !.start = r.time])
          [] n = 2 ->
               LET r == ParseTime(tkn.val) IN
               IF r.err # "none" THEN fail("invalid end time")
               ELSE keep([act EXCEPT !.end = r.time])
          [] n = 3 ->
               LET r == ParseReason(tkn.val) IN
               IF r.err # "none" THEN fail("invalid reason value")
               ELSE keep([act EXCEPT !.reason = r.reason])
          [] OTHER -> fail("unexpected token count")

RECURSIVE ActionsLoop(_, _)
ActionsLoop(st, tokens) ==
    IF tokens = <<>> THEN st ELSE ActionsLoop(ActionsStep(st, Head(tokens)), Tail(tokens))

\* getActions: the actions and the error returned
getActions(tokens) ==
    LET st == ActionsLoop([actions |-> <<>>, act |-> ZeroAction, line |-> 1, err |-> "none"],
                          tokens)
    IN  IF st.err # "none" THEN [actions |-> st.actions, err |-> st.err]
        ELSE IF Len(st.act.tokens) > 0
             THEN [actions |-> Append(st.actions, st.act), err |-> "none"]
             ELSE [actions |-> st.actions, err |-> "none"]

(***************************************************************************)
(* The segment validator: validateSegmentTimes                             *)
(***************************************************************************)

\* threshold := .001, in thousandths of a second
ThresholdMilli == 1

\* "x < threshold" for a difference x of two SecondNum values; x is in ticks
BelowThreshold(x) == x * 1000 < ThresholdMilli * TicksPerSecond

NoError == [kind |-> "none", lines |-> <<>>]

\* ValidateAction without its last check, the gap to the previous action
ValidateActionNoGapCheck(actions, i) ==
    LET act == actions[i] IN
    IF Len(act.tokens) = 0
    THEN [kind |-> "no tokens", lines |-> <<>>]
    ELSE IF SecondNum(act.end) < SecondNum(act.start)
    THEN [kind |-> "end time comes before start time", lines |-> <<act.tokens[1].linePos>>]
    ELSE IF BelowThreshold(SecondNum(act.end) - SecondNum(act.start))
    THEN [kind |-> "start time and end time are too close", lines |-> <<act.tokens[1].linePos>>]
    ELSE IF i > 1 /\ SecondNum(actions[i].end) < SecondNum(actions[i - 1].start)
    THEN [kind |-> "segments are out of order",
          lines |-> <<actions[i - 1].tokens[1].linePos, act.tokens[1].linePos>>]
    ELSE NoError

\* ValidateAction with the checks against the previous action made before
\* the checks of the action itself
ValidateActionPairFirst(actions, i) ==
    LET act == actions[i] IN
    IF Len(act.tokens) = 0
    THEN [kind |-> "no tokens", lines |-> <<>>]
    ELSE IF i > 1 /\ SecondNum(actions[i].end) < SecondNum(actions[i - 1].start)
    THEN [kind |-> "segments are out of order",
          lines |-> <<actions[i - 1].tokens[1].linePos, act.tokens[1].linePos>>]
    ELSE IF i > 1 /\ BelowThreshold(SecondNum(actions[i].start) - SecondNum(actions[i - 1].end))
    THEN [kind |-> "segments overlap or are too close",
          lines |-> <<actions[i - 1].tokens[1].linePos, act.tokens[1].linePos>>]
    ELSE IF SecondNum(act.end) < SecondNum(act.start)
    THEN [kind |-> "end time comes before start time", lines |-> <<act.tokens[1].linePos>>]
    ELSE IF BelowThreshold(SecondNum(act.end) - SecondNum(act.start))
    THEN [kind |-> "start time and end time are too close", lines |-> <<act.tokens[1].linePos>>]
    ELSE NoError

\* ValidateAction with the out-of-order check comparing the start of the
\* action with the end of the previous one
ValidateActionStartBeforeEnd(actions, i) ==
    LET act == actions[i] IN
    IF Len(act.tokens) = 0
    THEN [kind |-> "no tokens", lines |-> <<>>]
    ELSE IF SecondNum(act.end) < SecondNum(act.start)
    THEN [kind |-> "end time comes before start time", lines |-> <<act.tokens[1].linePos>>]
    ELSE IF BelowThreshold(SecondNum(act.end) - SecondNum(act.start))
    THEN [kind |-> "start time and end time are too close", lines |-> <<act.tokens[1].linePos>>]
    ELSE IF i > 1 /\ SecondNum(actions[i].start) < SecondNum(actions[i - 1].end)
    THEN [kind |-> "segments are out of order",
          lines |-> <<actions[i - 1].tokens[1].linePos, act.tokens[1].linePos>>]
    ELSE IF i > 1 /\ BelowThreshold(SecondNum(actions[i].start) - SecondNum(actions[i - 1].end))
    THEN [kind |-> "segments overlap or are too close",
          lines |-> <<actions[i - 1].tokens[1].linePos, act.tokens[1].linePos>>]
    ELSE NoError

\* the body of "for i, act := range actions" for the i-th action (from 1):
\* the error it returns, or NoError when the loop goes on
ValidateAction(actions, i) ==
    LET act == actions[i] IN
    IF Len(act.tokens) = 0
    THEN [kind |-> "no tokens", lines |-> <<>>]
    ELSE IF SecondNum(act.end) < SecondNum(act.start)
    THEN [kind |-> "end time comes before start time", lines |-> <<act.tokens[1].linePos>>]
    ELSE IF BelowThreshold(SecondNum(act.end) - SecondNum(act.start))
    THEN [kind |-> "start time and end time are too close", lines |-> <<act.tokens[1].linePos>>]
    ELSE IF i > 1 /\ SecondNum(actions[i].end) < SecondNum(actions[i - 1].start)
    THEN [kind |-> "segments are out of order",
          lines |-> <<actions[i - 1].tokens[1].linePos, act.tokens[1].linePos>>]
    ELSE IF i > 1 /\ BelowThreshold(SecondNum(actions[i].start) - SecondNum(actions[i - 1].end))
    THEN [kind |-> "segments overlap or are too close",
          lines |-> <<actions[i - 1].tokens[1].linePos, act.tokens[1].linePos>>]
    ELSE NoError

RECURSIVE ValidateFrom(_, _)
ValidateFrom(actions, i) ==
    IF i > Len(actions) THEN NoError
    ELSE LET e == ValidateAction(actions, i) IN
         IF e # NoError THEN e ELSE ValidateFrom(actions, i + 1)

\* validateSegmentTimes with the empty list rejected
validateSegmentTimesNonEmpty(actions) ==
    IF Len(actions) = 0 THEN [kind |-> "no actions to perform", lines |-> <<>>]
    ELSE ValidateFrom(actions, 1)

\* validateSegmentTimes: the error of the first action that fails a check
validateSegmentTimes(actions) == ValidateFrom(actions, 1)

(***************************************************************************)
(* The filter compiler: buildComplexFilter                                 *)
(*                                                                         *)
(* The expression s is the sequence of the statement pairs that the        *)
(* fmt.Sprintf calls append: a pair of trims (video, audio) or a pair of   *)
(* concats.  A time in a statement is the value SecondString renders.      *)
(***************************************************************************)

\* vidSegment / prevVidSegment, audSegment / prevAudSegment
vidSegment(n) == [name |-> "video", n |-> n]
audSegment(n) == [name |-> "audio", n |-> n]

\* "[0:v]trim=duration=D[video n];[0:a]atrim=duration=D[audio n];"
TrimDuration(d, n) ==
    [op |-> "trim", form |-> "duration", vin |-> "0:v", ain |-> "0:a",
     vstart |-> 0, vend |-> d, astart |-> 0, aend |-> d, setpts |-> FALSE,
     vout |-> vidSegment(n), aout |-> audSegment(n)]

\* "[0:v]trim=start=A:end=B,setpts=PTS-STARTPTS[video n];
\*  [ain]atrim=start=A:end=B,asetpts=PTS-STARTPTS[audio n];"
TrimRange(ain, a, b, n) ==
    [op |-> "trim", form |-> "range", vin |-> "0:v", ain |-> ain,
     vstart |-> a, vend |-> b, astart |-> a, aend |-> b, setpts |-> TRUE,
     vout |-> vidSegment(n), aout |-> audSegment(n)]

\* "[0:v]trim=start=A,setpts=PTS-STARTPTS[video n];
\*  [0:a]atrim=start=A,asetpts=PTS-STARTPTS[audio n];"
TrimFrom(a, n) ==
    [op |-> "trim", form |-> "from", vin |-> "0:v", ain |-> "0:a",
     vstart |-> a, vend |-> 0, astart |-> a, aend |-> 0, setpts |-> TRUE,
     vout |-> vidSegment(n), aout |-> audSegment(n)]

\* "[video x][video y]concat[vout];[audio x][audio y]concat=v=0:a=1[aout];"
Concat(x, y, vout, aout) ==
    [op |-> "concat", vin1 |-> vidSegment(x), vin2 |-> vidSegment(y), vout |-> vout,
     ain1 |-> audSegment(x), ain2 |-> audSegment(y), aout |-> aout]

\* TrimAndConcat with the concat written to the label of the trim
TrimAndConcatSameLabel(b, ain, a, e) ==
    LET c == b.segmentCounter IN
    [b EXCEPT !.segmentCounter = c + 1,
              !.s = b.s \o <<TrimRange(ain, a, e, c + 1),
                             Concat(c, c + 1, vidSegment(c + 1), audSegment(c + 1))>>]

\* a trim and the concat that follows it: segmentCounter++, the trim,
\* segmentCounter++, the concat of the two previous segments
TrimAndConcat(b, ain, a, e) ==
    LET c == b.segmentCounter IN
    [b EXCEPT !.segmentCounter = c + 2,
              !.s = b.s \o <<TrimRange(ain, a, e, c + 1),
                             Concat(c, c + 1, vidSegment(c + 2), audSegment(c + 2))>>]

\* "beginning of video": the state of the compiler before the loop
BuildStart(actions) ==
    [s |-> <<TrimDuration(SecondString(actions[1].start), 0)>>, segmentCounter |-> 0,
     err |-> "none"]

\* BuildCut with the segment before the cut running to the end of the cut
BuildCutBeforeToEnd(b, actions, i) ==
    LET act == actions[i]
        before == IF i > 1
                  THEN TrimAndConcat(b, "0:a", SecondString(actions[i - 1].end),
                                     SecondString(act.end))
                  ELSE b
    IN  IF i < Len(actions) /\ actions[i + 1].verb # CutVerb
        THEN TrimAndConcat(before, "0:a", SecondString(act.end),
                           SecondString(actions[i + 1].start))
        ELSE before

\* BuildCut with the segment after the cut emitted whatever the next verb
BuildCutAlwaysAfter(b, actions, i) ==
    LET act == actions[i]
        before == IF i > 1
                  THEN TrimAndConcat(b, "0:a", SecondString(actions[i - 1].end),
                                     SecondString(act.start))
                  ELSE b
    IN  IF i < Len(actions)
        THEN TrimAndConcat(before, "0:a", SecondString(act.end),
                           SecondString(actions[i + 1].start))
        ELSE before

\* BuildCut with no segment before a cut that follows a cut
BuildCutFused(b, actions, i) ==
    LET act == actions[i]
        before == IF i > 1 /\ actions[i - 1].verb # CutVerb
                  THEN TrimAndConcat(b, "0:a", SecondString(actions[i - 1].end),
                                     SecondString(act.start))
                  ELSE b
    IN  IF i < Len(actions) /\ actions[i + 1].verb # CutVerb
        THEN TrimAndConcat(before, "0:a", SecondString(act.end),
                           SecondString(actions[i + 1].start))
        ELSE before

\* case CutVerb of the loop body, for the i-th action (from 1)
BuildCut(b, actions, i) ==
    LET act == actions[i]
        before == IF i > 1
                  THEN TrimAndConcat(b, "0:a", SecondString(actions[i - 1].end),
                                     SecondString(act.start))
                  ELSE b
    IN  IF i < Len(actions) /\ actions[i + 1].verb # CutVerb
        THEN TrimAndConcat(before, "0:a", SecondString(act.end),
                           SecondString(actions[i + 1].start))
        ELSE before

\* BuildMute with the audio of the segment taken from the original
BuildMuteOriginalAudio(b, actions, i) ==
    TrimAndConcat(b, "0:a", SecondString(actions[i].start), SecondString(actions[i].end))

\* BuildMute with the audio taken from the original when the action has a
\* reason
BuildMuteByReason(b, actions, i) ==
    TrimAndConcat(b, IF actions[i].reason = ZeroReason THEN "1:a" ELSE "0:a",
                  SecondString(actions[i].start), SecondString(actions[i].end))

\* case MuteVerb of the loop body
BuildMute(b, actions, i) ==
    TrimAndConcat(b, "1:a", SecondString(actions[i].start), SecondString(actions[i].end))

\* the body of "for i, act := range actions"
BuildAction(b, actions, i) ==
    IF b.err # "none" THEN b
    ELSE CASE actions[i].verb = CutVerb -> BuildCut(b, actions, i)
           [] actions[i].verb = MuteVerb -> BuildMute(b, actions, i)
           [] OTHER -> [b EXCEPT !.err = "unsupported verb"]

\* "end of video" and "concatenate final output segment"
BuildFinish(b, actions) ==
    LET c == b.segmentCounter IN
    [b EXCEPT !.segmentCounter = c + 1,
              !.s = b.s \o <<TrimFrom(SecondString(actions[Len(actions)].end), c + 1),
                             Concat(c, c + 1, [name |-> "outv", n |-> 0],
                                    [name |-> "outa", n |-> 0])>>]

RECURSIVE BuildLoop(_, _, _)
BuildLoop(b, actions, i) ==
    IF i > Len(actions) \/ b.err # "none" THEN b
    ELSE BuildLoop(BuildAction(b, actions, i), actions, i + 1)

\* buildComplexFilter: the expression, the error and the final counter
buildComplexFilter(actions) ==
    IF Len(actions) = 0
    THEN [s |-> <<>>, segmentCounter |-> 0, err |-> "no actions to perform"]
    ELSE LET b == BuildLoop(BuildStart(actions), actions, 1) IN
         IF b.err # "none" THEN b ELSE BuildFinish(b, actions)

(***************************************************************************)
(* Inputs                                                                  *)
(***************************************************************************)

\* the longest filter file, in lines
MaxLines == 2

VerbWords == {<<"c", "u", "t">>, <<"m", "u", "t", "e">>}

\* "1-2", "3-4", "2-1"
Spans == {<<"1", "-", "2">>, <<"3", "-", "4">>, <<"2", "-", "1">>}

\* what follows the end time: nothing, a comment, a reason, a reason and a comment
Tails == {<<>>, <<" ", "#", " ", "c">>, <<" ", "(", "r", ")">>,
          <<" ", "(", "r", ")", " ", "#", " ", "c">>}

\* blank lines, comment-only lines, lines without an end time, an unknown
\* verb, an upper-case verb with minute:second times, a comment inside the
\* reason and right after the end time
OtherLines ==
    {<<>>, <<" ">>, <<"#", " ", "c">>, <<" ", "#", "c">>,
     <<"c", "u", "t", " ", "1">>, <<"m", "u", "t", "e", " ", "3", "-">>,
     <<"c", "u", "t", " ", "3", " ", "#", "c">>,
     <<"x", " ", "1", "-", "2">>,
     <<"C", "u", "t", " ", ":", "5", "-", "0", ":", "0", ":", "6">>,
     <<"c", "u", "t", " ", "5", "-", "6", " ", "(", "r", ":", "x", " ", "#", "c">>,
     <<"m", "u", "t", "e", " ", "5", "-", "6", "#", "c">>}

Lines ==
    {v \o <<" ">> \o sp \o tl : v \in VerbWords, sp \in Spans, tl \in Tails} \cup OtherLines

\* the filter files of the model
Files == UNION {[1..n -> Lines] : n \in 0..MaxLines}

\* the longest action list drawn directly, and the latest time in it, in ticks
MaxActions == 3
MaxTime == 8

\* the longest action list with times in any order, and its latest time
MaxShort == 2
MaxShortTime == 3

\* an action as getActions builds it from a line; of its tokens the
\* validator and the compiler read only the count and the line of the first
MkAction(verb, startTicks, endTicks, line) ==
    [tokens |-> <<[val |-> IF verb = CutVerb THEN <<"c", "u", "t">> ELSE <<"m", "u", "t", "e">>,
                   linePos |-> line, charPos |-> 1]>>,
     verb |-> verb,
     start |-> [Hour |-> 0, Minute |-> 0, Second |-> startTicks],
     end |-> [Hour |-> 0, Minute |-> 0, Second |-> endTicks],
     reason |-> ZeroReason]

Min(S) == CHOOSE x \in S : \A y \in S : x <= y

RECURSIVE SortedSeq(_)
SortedSeq(S) == IF S = {} THEN <<>> ELSE <<Min(S)>> \o SortedSeq(S \ {Min(S)})

\* the sequences of m times from 0 to MaxTime that never decrease: the k-th
\* point of a set of m points, less k - 1
OrderedTimes(m) ==
    {LET p == SortedSeq(S) IN [k \in 1..m |-> p[k] - (k - 1)] :
        S \in {S \in SUBSET (0..(MaxTime + m - 1)) : Cardinality(S) = m}}

\* the list of n actions with the verbs vs and the 2n times p
MkActions(n, vs, p) == [k \in 1..n |-> MkAction(vs[k], p[2 * k - 1], p[2 * k], k)]

\* the list is one whose 2n times never decrease
OrderedList(list) ==
    \E n \in 0..MaxActions :
        \E p \in OrderedTimes(2 * n), vs \in [1..n -> {CutVerb, MuteVerb}] :
            list = MkActions(n, vs, p)

\* the list is a short one, with times in any order
AnyOrderList(list) ==
    \E n \in 0..MaxShort :
        \E p \in [1..(2 * n) -> 0..MaxShortTime], vs \in [1..n -> {CutVerb, MuteVerb}] :
            list = MkActions(n, vs, p)

\* the characters of the lines drawn for the lexer
LexerAlphabet == {"1", " ", "-", "(", ")", "#"}

\* the longest run of arbitrary characters in such a line
MaxSuffix == 4

\* the strings of at most n characters
Strings(n) == UNION {[1..k -> LexerAlphabet] : k \in 0..n}

\* the starts of a line that leave the lexer in the verb, the start, the end
\* and the reason field: "", "cut ", "mute 1-", "cut 1-2("
Prefixes ==
    {<<>>, <<"c", "u", "t", " ">>, <<"m", "u", "t", "e", " ", "1", "-">>,
     <<"c", "u", "t", " ", "1", "-", "2", "(">>}

\* a start followed by any string of at most n characters
LexerLines(n) == {p \o x : p \in Prefixes, x \in Strings(n)}

\* the second lines of a file of two lines: "", "1", "# 1", "cut 1-2 (1)"
SecondLines ==
    {<<>>, <<"1">>, <<"#", " ", "1">>,
     <<"c", "u", "t", " ", "1", "-", "2", " ", "(", "1", ")">>}

\* the files drawn for the lexer: of one line, and of two lines
LexerFiles ==
    {<<l>> : l \in LexerLines(MaxSuffix)}
        \cup {<<l, m>> : l \in LexerLines(MaxSuffix - 1), m \in SecondLines}

\* the lines of a token list drawn for the action builder, and the most
\* tokens on one of them
MaxTokenLines == 3
MaxRow == 5

\* the values of the k-th token of a line: "cut" or "Mute"; "1"; "2"; "r:x"
\* or "a:b:c"; beyond the fourth, "z"
PosVals(k) ==
    CASE k = 1 -> {<<"c", "u", "t">>, <<"M", "u", "t", "e">>}
      [] k = 2 -> {<<"1">>}
      [] k = 3 -> {<<"2">>}
      [] k = 4 -> {<<"r", ":", "x">>, <<"a", ":", "b", ":", "c">>}
      [] OTHER -> {<<"z">>}

\* the values of the tokens of one line
TokenRows ==
    UNION {{row \in [1..n -> UNION {PosVals(k) : k \in 1..n}] :
                \A k \in 1..n : row[k] \in PosVals(k)} : n \in 0..MaxRow}

\* the tokens of the lines 1 .. n with the values rows[1] .. rows[n]
RECURSIVE TokensOfRows(_, _)
TokensOfRows(rows, n) ==
    IF n = 0 THEN <<>>
    ELSE TokensOfRows(rows, n - 1)
             \o [k \in DOMAIN rows[n] |-> [val |-> rows[n][k], linePos |-> n, charPos |-> 2 * k - 1]]

(***************************************************************************)
(* The program: main                                                       *)
(***************************************************************************)

VARIABLES
    input,           \* the lines of the filter file
    pc,              \* where main is
    tokens,          \* main's tokens
    actions,         \* main's actions
    err,             \* the error main passed to log.Fatal
    s,               \* buildComplexFilter's s
    segmentCounter,  \* buildComplexFilter's segmentCounter
    i,               \* buildComplexFilter's loop index (from 1)
    filterCplx,      \* main's filterCplx
    calls,           \* the functions main has called, in order
    ffmpeg           \* the ffmpeg command main has run

vars == <<input, pc, tokens, actions, err, s, segmentCounter, i, filterCplx, calls, ffmpeg>>

MkErr(kind) == [kind |-> kind, lines |-> <<>>]

NotRun == [invoked |-> FALSE, filter |-> <<>>]

\* the state before main opens the filter file
Init ==
    /\ input \in Files
    /\ pc = "open"
    /\ tokens = <<>>
    /\ actions = <<>>
    /\ err = NoError
    /\ s = <<>>
    /\ segmentCounter = 0
    /\ i = 0
    /\ filterCplx = <<>>
    /\ calls = <<>>
    /\ ffmpeg = NotRun

\* the state in which main holds an action list and is about to validate it
InitActions ==
    /\ input = <<>>
    /\ pc = "validate"
    /\ tokens = <<>>
    /\ OrderedList(actions) \/ AnyOrderList(actions)
    /\ err = NoError
    /\ s = <<>>
    /\ segmentCounter = 0
    /\ i = 0
    /\ filterCplx = <<>>
    /\ calls = <<>>
    /\ ffmpeg = NotRun

\* log.Fatal(e)
Fatal(e) == pc' = "fatal" /\ err' = e

\* file, err := os.Open(filterFile)
Open ==
    /\ pc = "open"
    /\ \E ok \in BOOLEAN :
          IF ok THEN pc' = "getTokens" /\ err' = err ELSE Fatal(MkErr("open"))
    /\ UNCHANGED <<input, tokens, actions, s, segmentCounter, i, filterCplx, calls, ffmpeg>>

\* tokens, err := getTokens(file)
GetTokens ==
    /\ pc = "getTokens"
    /\ \E scanErr \in {"none", "read error"} :
          LET r == getTokens(input, scanErr) IN
          /\ tokens' = r.tokens
          /\ IF r.err = "none" THEN pc' = "getActions" /\ err' = err ELSE Fatal(MkErr(r.err))
    /\ calls' = Append(calls, "getTokens")
    /\ UNCHANGED <<input, actions, s, segmentCounter, i, filterCplx, ffmpeg>>

\* actions, err := getActions(tokens)
GetActions ==
    /\ pc = "getActions"
    /\ LET r == getActions(tokens) IN
          /\ actions' = r.actions
          /\ IF r.err = "none" THEN pc' = "validate" /\ err' = err ELSE Fatal(MkErr(r.err))
    /\ calls' = Append(calls, "getActions")
    /\ UNCHANGED <<input, tokens, s, segmentCounter, i, filterCplx, ffmpeg>>

\* Validate with the error of validateSegmentTimes dropped
ValidateUnchecked ==
    /\ pc = "validate"
    /\ pc' = "build"
    /\ calls' = Append(calls, "validateSegmentTimes")
    /\ UNCHANGED <<input, tokens, actions, err, s, segmentCounter, i, filterCplx, ffmpeg>>

\* err = validateSegmentTimes(actions)
Validate ==
    /\ pc = "validate"
    /\ LET e == validateSegmentTimes(actions) IN
          IF e = NoError THEN pc' = "build" /\ err' = err ELSE Fatal(e)
    /\ calls' = Append(calls, "validateSegmentTimes")
    /\ UNCHANGED <<input, tokens, actions, s, segmentCounter, i, filterCplx, ffmpeg>>

\* filterCplx, err := buildComplexFilter(actions): up to the loop
BuildBegin ==
    /\ pc = "build"
    /\ IF Len(actions) = 0
       THEN /\ Fatal(MkErr("no actions to perform"))
            /\ UNCHANGED <<s, segmentCounter, i>>
       ELSE /\ pc' = "buildLoop"
            /\ s' = BuildStart(actions).s
            /\ segmentCounter' = BuildStart(actions).segmentCounter
            /\ i' = 1
            /\ err' = err
    /\ calls' = Append(calls, "buildComplexFilter")
    /\ UNCHANGED <<input, tokens, actions, filterCplx, ffmpeg>>

\* one iteration of the loop of buildComplexFilter
BuildStep ==
    /\ pc = "buildLoop"
    /\ i <= Len(actions)
    /\ LET b == BuildAction([s |-> s, segmentCounter |-> segmentCounter, err |-> "none"],
                            actions, i)
       IN  /\ s' = b.s
           /\ segmentCounter' = b.segmentCounter
           /\ IF b.err = "none" THEN pc' = pc /\ err' = err /\ i' = i + 1
              ELSE Fatal(MkErr(b.err)) /\ i' = i
    /\ UNCHANGED <<input, tokens, actions, filterCplx, calls, ffmpeg>>

\* the end of buildComplexFilter and its return to main
BuildEnd ==
    /\ pc = "buildLoop"
    /\ i > Len(actions)
    /\ LET b == BuildFinish([s |-> s, segmentCounter |-> segmentCounter, err |-> "none"],
                            actions)
       IN  /\ s' = b.s
           /\ segmentCounter' = b.segmentCounter
           /\ filterCplx' = b.s
    /\ pc' = "ffmpeg"
    /\ UNCHANGED <<input, tokens, actions, err, i, calls, ffmpeg>>

\* cmd := exec.Command("ffmpeg", args...); err = cmd.Run()
RunFfmpeg ==
    /\ pc = "ffmpeg"
    /\ ffmpeg' = [invoked |-> TRUE, filter |-> filterCplx]
    /\ \E ok \in BOOLEAN :
          IF ok THEN pc' = "done" /\ err' = err ELSE Fatal(MkErr("ffmpeg"))
    /\ calls' = Append(calls, "ffmpeg")
    /\ UNCHANGED <<input, tokens, actions, s, segmentCounter, i, filterCplx>>

\* main, from a filter file
Next ==
    \/ Open
    \/ GetTokens
    \/ GetActions
    \/ Validate
    \/ BuildBegin
    \/ BuildStep
    \/ BuildEnd
    \/ RunFfmpeg

Spec == Init /\ [][Next]_vars

\* validateSegmentTimes and buildComplexFilter, from an action list
NextActions ==
    \/ Validate
    \/ BuildBegin
    \/ BuildStep
    \/ BuildEnd

SpecActions == InitActions /\ [][NextActions]_vars

\* the state in which main has opened a filter file of the lexer's inputs
InitLexer ==
    /\ input \in LexerFiles
    /\ pc = "getTokens"
    /\ tokens = <<>>
    /\ actions = <<>>
    /\ err = NoError
    /\ s = <<>>
    /\ segmentCounter = 0
    /\ i = 0
    /\ filterCplx = <<>>
    /\ calls = <<>>
    /\ ffmpeg = NotRun

\* getTokens and getActions, from a filter file
NextLexer ==
    \/ GetTokens
    \/ GetActions

SpecLexer == InitLexer /\ [][NextLexer]_vars

\* the state in which main holds a token list and is about to build the
\* actions
InitTokens ==
    /\ input = <<>>
    /\ pc = "getActions"
    /\ \E rows \in [1..MaxTokenLines -> TokenRows] : tokens = TokensOfRows(rows, MaxTokenLines)
    /\ actions = <<>>
    /\ err = NoError
    /\ s = <<>>
    /\ segmentCounter = 0
    /\ i = 0
    /\ filterCplx = <<>>
    /\ calls = <<>>
    /\ ffmpeg = NotRun

\* getActions, from a token list
NextTokens == GetActions

SpecTokens == InitTokens /\ [][NextTokens]_vars

(***************************************************************************)
(* Properties of the lexer and the action builder                          *)
(***************************************************************************)

\* the index of the first '#' of a line, 0 when it has none
RECURSIVE FirstHash(_, _)
FirstHash(line, k) ==
    IF k > Len(line) THEN 0 ELSE IF line[k] = "#" THEN k ELSE FirstHash(line, k + 1)

\* the line without its comment
BeforeComment(line) ==
    IF FirstHash(line, 1) = 0 THEN line ELSE SubSeq(line, 1, FirstHash(line, 1) - 1)

\* the tokens and the actions of a file of one line
LineTokens(line) == getTokens(<<line>>, "none").tokens
LineActions(line) == getActions(LineTokens(line))

\* the actions main holds that come from line k of the input
ActionsOfLine(k) ==
    LET FromLine(a) == a.tokens[1].linePos = k IN SelectSeq(actions, FromLine)

\* a line "verb start-end # comment": its '#' is met in the end field, and
\* the text before the '#' has a verb, a start and an end and makes one action
EndThenComment(line) ==
    /\ FirstHash(line, 1) > 0
    /\ LexChars(LineStart(1, <<>>), BeforeComment(line), 0, 1).field = "end"
    /\ Len(LineTokens(BeforeComment(line))) = 3
    /\ LineActions(BeforeComment(line)).err = "none"

\* C1: once getActions has returned without error, every line of the form
\* "verb start-end # comment" has given exactly one action, with the verb,
\* the start and the end of the same line without its comment, with an
\* empty annotation and with the same number of tokens.
C1_TrailingCommentIgnored ==
    pc = "validate" =>
        \A k \in DOMAIN input :
            EndThenComment(input[k]) =>
                LET want == LineActions(BeforeComment(input[k])).actions
                    got  == ActionsOfLine(k)
                IN  /\ Len(got) = 1
                    /\ got[1].verb = want[1].verb
                    /\ got[1].start = want[1].start
                    /\ got[1].end = want[1].end
                    /\ got[1].reason = ZeroReason
                    /\ Len(got[1].tokens) = Len(want[1].tokens)

\* a line with a verb and a start time above zero and no end time: two
\* words, a spelling of a verb and a time above zero, then at most a '-',
\* and no comment
NoEndTime(line) ==
    LET body  == TrimSpace(line)
        text  == IF body # <<>> /\ body[Len(body)] = "-"
                 THEN SubSeq(body, 1, Len(body) - 1) ELSE body
        words == Split(text, " ")
    IN  /\ \A k \in DOMAIN text : text[k] \notin {"#", "-"}
        /\ Len(words) = 2
        /\ ToLower(words[1]) \in DOMAIN verbs
        /\ ParseTime(words[2]).err = "none"
        /\ SecondNum(ParseTime(words[2]).time) > 0

EndBeforeStart == "end time comes before start time"

\* the actions before the n-th pass every check of the validator
EarlierPass(n) == \A j \in 1..(n - 1) : ValidateAction(actions, j) = NoError

BlankOrComment(line) == TrimLeft(line) = <<>> \/ Head(TrimLeft(line)) = "#"

Stages == <<"getTokens", "getActions", "validateSegmentTimes", "buildComplexFilter", "ffmpeg">>

\* C10: for an input of blank and comment-only lines, getTokens, getActions
\* and validateSegmentTimes return no error (a failure before
\* buildComplexFilter is a failure to open or read the file), the token
\* list and the action list stay empty, and buildComplexFilter rejects the
\* list with the empty-action-list error and the empty expression: its
\* loop is never entered and ffmpeg never run.
C10_EmptyListRejectedByCompiler ==
    (\A k \in DOMAIN input : BlankOrComment(input[k])) =>
        /\ tokens = <<>> /\ actions = <<>>
        /\ pc \notin {"buildLoop", "ffmpeg", "done"}
        /\ pc = "fatal" => err.kind \in {"open", "read error", "no actions to perform"}
        /\ pc = "build" => calls = SubSeq(Stages, 1, 3)
        /\ err.kind = "no actions to perform" =>
              /\ calls = SubSeq(Stages, 1, 4)
              /\ s = <<>> /\ filterCplx = <<>>
              /\ ~ffmpeg.invoked

\* an input of two such lines that the compiler has rejected
C10_Witness ==
    /\ Len(input) = 2
    /\ \A k \in DOMAIN input : BlankOrComment(input[k])
    /\ input[1] # input[2]
    /\ pc = "fatal"
    /\ err.kind = "no actions to perform"

(***************************************************************************)
(* Properties of main                                                      *)
(***************************************************************************)

\* the error of the stage that main called last, "none" when it succeeded
LastStageFailed ==
    LET last == calls[Len(calls)] IN
    CASE last = "getTokens" -> err.kind \in {"read error", "unexpected state"}
      [] last = "getActions" -> err = MkErr(getActions(tokens).err) /\ err # NoError
      [] last = "validateSegmentTimes" -> err = validateSegmentTimes(actions) /\ err # NoError
      [] last = "buildComplexFilter" -> err = MkErr(buildComplexFilter(actions).err) /\ err # NoError
      [] last = "ffmpeg" -> err = MkErr("ffmpeg")

\* C5: main calls the stages in the order getTokens, getActions,
\* validateSegmentTimes, buildComplexFilter, ffmpeg, each at most once;
\* ffmpeg is run only when the four before it have returned without error,
\* on the expression buildComplexFilter returned; when a stage returns an
\* error main stops with that error, ffmpeg is never run and main holds no
\* expression.
C5_EngineOnlyAfterAllStages ==
    /\ Len(calls) <= Len(Stages) /\ calls = SubSeq(Stages, 1, Len(calls))
    /\ (ffmpeg.invoked \/ pc \in {"ffmpeg", "done"}) =>
          /\ getTokens(input, "none") = [tokens |-> tokens, err |-> "none"]
          /\ getActions(tokens) = [actions |-> actions, err |-> "none"]
          /\ validateSegmentTimes(actions) = NoError
          /\ buildComplexFilter(actions).err = "none"
          /\ filterCplx = buildComplexFilter(actions).s
          /\ ffmpeg.invoked => ffmpeg.filter = filterCplx
    /\ ffmpeg.invoked <=> (calls = Stages)
    /\ (pc = "fatal" /\ calls # <<>>) => LastStageFailed
    /\ (pc = "fatal" /\ calls # Stages) => (~ffmpeg.invoked /\ filterCplx = <<>>)
    /\ pc \notin {"fatal", "ffmpeg", "done"} => (err = NoError /\ filterCplx = <<>>)

\* ffmpeg has been run on the expression of a file of two actions
C5_Witness ==
    /\ pc = "done"
    /\ ffmpeg.invoked
    /\ Len(actions) = 2
    /\ ffmpeg.filter = buildComplexFilter(actions).s

(***************************************************************************)
(* Properties of the validator                                             *)
(***************************************************************************)

\* end - start of the n-th action and the gap before it, in ticks
Duration(n) == SecondNum(actions[n].end) - SecondNum(actions[n].start)
Gap(n) == SecondNum(actions[n].start) - SecondNum(actions[n - 1].end)

LineOf(n) == actions[n].tokens[1].linePos

Validated == calls # <<>> /\ calls[Len(calls)] = "validateSegmentTimes"

TooClose == "start time and end time are too close"
OutOfOrder == "segments are out of order"
Overlap == "segments overlap or are too close"

\* every action is long enough and every gap wide enough
AllWellFormed ==
    /\ \A n \in DOMAIN actions : ~BelowThreshold(Duration(n))
    /\ \A n \in 2..Len(actions) : ~BelowThreshold(Gap(n))

\* the actions before the n-th are long enough and the gaps between them
\* wide enough: no check fails before those of the n-th action
FirstToFail(n) ==
    /\ \A j \in 1..(n - 1) : ~BelowThreshold(Duration(j))
    /\ \A j \in 2..(n - 1) : ~BelowThreshold(Gap(j))

\* C6 as stated: once the validator has run, a gap below the threshold
\* between two consecutive actions has made it fail with the
\* overlap-or-adjacent error naming both lines, and a list of actions that
\* are long enough, with gaps that are wide enough, has passed.
C6_AsStated ==
    Validated =>
        /\ \A n \in 2..Len(actions) :
              BelowThreshold(Gap(n)) =>
                  /\ pc = "fatal"
                  /\ err = [kind |-> Overlap, lines |-> <<LineOf(n - 1), LineOf(n)>>]
        /\ AllWellFormed => (pc = "build" /\ err = NoError)

\* C6, amended: a gap below the threshold makes the validator fail; the
\* error is the overlap-or-adjacent error naming both lines when no earlier
\* check fails, that is when the actions up to the second of the pair are
\* long enough, the gaps before the pair wide enough and the second does
\* not end before the first starts; it is the out-of-order error naming
\* both lines when the second ends before the first starts; and a list of
\* actions that are long enough, with gaps that are wide enough, passes.
C6_SmallGapFails ==
    Validated =>
        /\ \A n \in 2..Len(actions) :
              BelowThreshold(Gap(n)) =>
                  /\ pc = "fatal"
                  /\ (FirstToFail(n) /\ ~BelowThreshold(Duration(n))) =>
                        err = [kind |-> IF SecondNum(actions[n].end) < SecondNum(actions[n - 1].start)
                                        THEN OutOfOrder ELSE Overlap,
                               lines |-> <<LineOf(n - 1), LineOf(n)>>]
        /\ AllWellFormed => (pc = "build" /\ err = NoError)

\* the validator has failed on the gap before the third of three actions
C6_Witness ==
    /\ Validated
    /\ Len(actions) = 3
    /\ BelowThreshold(Gap(3))
    /\ actions[3].verb # actions[2].verb
    /\ pc = "fatal"
    /\ err = [kind |-> Overlap, lines |-> <<2, 3>>]

\* C7 as stated: once the validator has run, an action shorter than the
\* threshold has made it fail with the segment-too-short error.
C7_AsStated ==
    Validated =>
        \A n \in DOMAIN actions :
            BelowThreshold(Duration(n)) => (pc = "fatal" /\ err.kind = TooClose)

\* C7, amended: an action shorter than the threshold makes the validator
\* fail wherever it is in the list; when no earlier check fails the error
\* names the action's line, and it is the segment-too-short error when
\* 0 <= end - start and the end-before-start error when end < start.
C7_ShortActionFails ==
    Validated =>
        \A n \in DOMAIN actions :
            BelowThreshold(Duration(n)) =>
                /\ pc = "fatal"
                /\ FirstToFail(n) =>
                      err = [kind |-> IF Duration(n) < 0 THEN EndBeforeStart ELSE TooClose,
                             lines |-> <<LineOf(n)>>]

\* the validator has failed on a second action that is too short, and whose
\* gap to the first is too small as well
C7_Witness ==
    /\ Validated
    /\ Len(actions) = 3
    /\ Duration(2) >= 0 /\ BelowThreshold(Duration(2))
    /\ BelowThreshold(Gap(2))
    /\ pc = "fatal"
    /\ err = [kind |-> TooClose, lines |-> <<2>>]

\* the validator reaches the checks of the n-th action against the one
\* before it: no earlier check fails and the n-th action is long enough
ReachesPairChecks(n) == FirstToFail(n) /\ ~BelowThreshold(Duration(n))

\* the n-th action starts before the one before it ends
StartsBeforePrevEnds(n) == SecondNum(actions[n].start) < SecondNum(actions[n - 1].end)

\* the n-th action ends before the one before it starts
EndsBeforePrevStarts(n) == SecondNum(actions[n].end) < SecondNum(actions[n - 1].start)

\* C11 as stated: when the validator reaches the checks of an action against
\* the one before it and the action starts before the previous one ends,
\* the validator has failed with the out-of-order error naming both lines.
C11_AsStated ==
    Validated =>
        \A n \in 2..Len(actions) :
            (ReachesPairChecks(n) /\ StartsBeforePrevEnds(n)) =>
                /\ pc = "fatal"
                /\ err = [kind |-> OutOfOrder, lines |-> <<LineOf(n - 1), LineOf(n)>>]

\* C11, amended: the out-of-order check compares the end of the action with
\* the start of the previous one.  When the validator reaches the checks of
\* an action against the one before it, it fails with the out-of-order
\* error exactly when the action ends before the previous one starts; an
\* action that starts before the previous one ends without ending before it
\* starts (an overlap) passes the out-of-order check and fails the next
\* one, with the overlap-or-adjacent error.  Either way the list is
\* rejected with an error naming both lines.
C11_OutOfOrderIsEndBeforePrevStart ==
    Validated =>
        \A n \in 2..Len(actions) :
            ReachesPairChecks(n) =>
                /\ EndsBeforePrevStarts(n) =>
                      /\ pc = "fatal"
                      /\ err = [kind |-> OutOfOrder, lines |-> <<LineOf(n - 1), LineOf(n)>>]
                /\ (StartsBeforePrevEnds(n) /\ ~EndsBeforePrevStarts(n)) =>
                      /\ pc = "fatal"
                      /\ err = [kind |-> Overlap, lines |-> <<LineOf(n - 1), LineOf(n)>>]
                /\ (err.kind = OutOfOrder /\ err.lines = <<LineOf(n - 1), LineOf(n)>>) =>
                      EndsBeforePrevStarts(n)

\* the validator has rejected two actions that overlap, the second
\* starting inside the first and ending after it
C11_Witness ==
    /\ Validated
    /\ Len(actions) = 2
    /\ ReachesPairChecks(2)
    /\ StartsBeforePrevEnds(2)
    /\ SecondNum(actions[2].start) > SecondNum(actions[1].start)
    /\ SecondNum(actions[2].end) > SecondNum(actions[1].end)
    /\ pc = "fatal"
    /\ err = [kind |-> Overlap, lines |-> <<1, 2>>]

(***************************************************************************)
(* Properties of the compiler                                              *)
(***************************************************************************)

IsTrim(st) == st.op = "trim"

\* the trims of an expression, in the order they are appended, which is the
\* order in which the concats chain them
Trims(e) == SelectSeq(e, IsTrim)

\* the part of the input that a trim keeps on the video and on the audio
\* path: from lo to hi hundredths of a second, or from lo on when open
VideoPiece(tr) == [lo |-> tr.vstart, hi |-> tr.vend, open |-> tr.form = "from"]
AudioPiece(tr) == [lo |-> tr.astart, hi |-> tr.aend, open |-> tr.form = "from"]

VideoPieces(e) == [k \in DOMAIN Trims(e) |-> VideoPiece(Trims(e)[k])]
AudioPieces(e) == [k \in DOMAIN Trims(e) |-> AudioPiece(Trims(e)[k])]

NonEmpty(piece) == piece.open \/ piece.lo < piece.hi

\* the parts of the timeline outside the cuts, from the n-th action on, in
\* time order and in hundredths of a second: the n-th action when it is a
\* mute, then the gap after it or, after the last action, the rest
RECURSIVE RetainedFrom(_, _)
RetainedFrom(list, n) ==
    (IF list[n].verb = MuteVerb
     THEN <<[lo |-> SecondString(list[n].start), hi |-> SecondString(list[n].end),
             open |-> FALSE]>>
     ELSE <<>>)
    \o (IF n < Len(list)
        THEN <<[lo |-> SecondString(list[n].end), hi |-> SecondString(list[n + 1].start),
                open |-> FALSE]>> \o RetainedFrom(list, n + 1)
        ELSE <<[lo |-> SecondString(list[n].end), hi |-> 0, open |-> TRUE]>>)

Retained(list) ==
    <<[lo |-> 0, hi |-> SecondString(list[1].start), open |-> FALSE]>> \o RetainedFrom(list, 1)

\* C2 as stated: the trims of the expression that buildComplexFilter returns
\* for an accepted list keep, in time order and each once, every part of
\* the timeline outside the cuts (times as SecondString renders them, parts
\* of no length left aside), on the video path and on the audio path.
C2_RetainedTimelineCovered ==
    pc = "ffmpeg" =>
        /\ SelectSeq(VideoPieces(filterCplx), NonEmpty) = SelectSeq(Retained(actions), NonEmpty)
        /\ SelectSeq(AudioPieces(filterCplx), NonEmpty) = SelectSeq(Retained(actions), NonEmpty)

\* the actions the compiler has gone through
Compiled == SubSeq(actions, 1, IF pc = "ffmpeg" THEN Len(actions) ELSE i - 1)

Compiling == pc \in {"buildLoop", "ffmpeg"}

\* a trim of the expression keeps a part of [from, to), both in ticks
KeepsTicks(tr, from, to) ==
    /\ from < to
    /\ tr.form = "from" \/ tr.vstart < tr.vend
    /\ tr.vstart * TicksPerSecond < to * 100
    /\ tr.form = "from" \/ from * 100 < tr.vend * TicksPerSecond

\* a trim of the expression keeps a part of [from, to), both in hundredths
KeepsHundredths(tr, from, to) ==
    /\ from < to
    /\ tr.form = "from" \/ tr.vstart < tr.vend
    /\ tr.vstart < to
    /\ tr.form = "from" \/ from < tr.vend

IsCut(a) == a.verb = CutVerb

IsMute(a) == a.verb = MuteVerb
FromSilence(st) == IsTrim(st) /\ st.ain = "1:a"

\* C4: the trims that take their audio from the silence input (input 1) are,
\* in order, one for each Mute action compiled so far; such a trim takes its
\* video from input 0, both over the start and the end of the action as
\* SecondString renders them, and the statement after it concatenates it
\* onto the segment accumulated before it.
C4_MuteFromSilence ==
    Compiling =>
        LET mutes   == SelectSeq(Compiled, IsMute)
            silence == SelectSeq(s, FromSilence)
        IN  /\ Len(silence) = Len(mutes)
            /\ \A k \in DOMAIN silence :
                  /\ silence[k].vin = "0:v" /\ silence[k].form = "range"
                  /\ silence[k].vstart = SecondString(mutes[k].start)
                  /\ silence[k].vend = SecondString(mutes[k].end)
                  /\ silence[k].astart = silence[k].vstart
                  /\ silence[k].aend = silence[k].vend
            /\ \A q \in DOMAIN s :
                  FromSilence(s[q]) =>
                      /\ 1 < q /\ q < Len(s)
                      /\ s[q + 1].op = "concat"
                      /\ s[q + 1].vin1 = s[q - 1].vout /\ s[q + 1].vin2 = s[q].vout
                      /\ s[q + 1].ain1 = s[q - 1].aout /\ s[q + 1].ain2 = s[q].aout

\* the expression of two mutes around a cut
C4_Witness ==
    /\ pc = "ffmpeg"
    /\ Len(actions) = 3
    /\ IsMute(actions[1]) /\ IsCut(actions[2]) /\ IsMute(actions[3])
    /\ Len(SelectSeq(s, FromSilence)) = 2

VerbsOf(list) == [k \in DOMAIN list |-> list[k].verb]

\* the number of trims between the first and the last that the n-th verb
\* of a verb sequence calls for
TrimsFor(vs, n) ==
    IF vs[n] = MuteVerb THEN 1
    ELSE (IF n > 1 THEN 1 ELSE 0) + (IF n < Len(vs) /\ vs[n + 1] # CutVerb THEN 1 ELSE 0)

RECURSIVE TrimsUpTo(_, _)
TrimsUpTo(vs, n) == IF n = 0 THEN 0 ELSE TrimsUpTo(vs, n - 1) + TrimsFor(vs, n)

HasForm(form) == LET Test(st) == IsTrim(st) /\ st.form = form IN Len(SelectSeq(s, Test))

\* C9: the expression has one initial trim and, once complete, one trailing
\* trim; the trims between them number, for the actions compiled so far,
\* what their verbs call for: one for a Mute; for a Cut one when it is not
\* the first action, and one more when it is not the last and the next verb
\* is not Cut.  The counter is twice that number, plus one at the end; the
\* counter and the number of statements are those of the list with the
\* same verbs at the times 1, 2, 3, ...
C9_SegmentCountByVerbs ==
    Compiling =>
        LET vs == VerbsOf(actions)
            n  == Len(Compiled)
        IN  /\ HasForm("duration") = 1 /\ s[1].form = "duration"
            /\ HasForm("range") = TrimsUpTo(vs, n)
            /\ pc = "buildLoop" => (HasForm("from") = 0 /\ segmentCounter = 2 * TrimsUpTo(vs, n))
            /\ pc = "ffmpeg" =>
                  /\ HasForm("from") = 1 /\ s[Len(s) - 1].form = "from"
                  /\ segmentCounter = 2 * TrimsUpTo(vs, n) + 1
                  /\ LET other == buildComplexFilter(
                                      MkActions(n, vs, [k \in 1..(2 * n) |-> k]))
                     IN  /\ other.segmentCounter = segmentCounter
                         /\ Len(other.s) = Len(s)

\* the expression of a cut that calls for no trim, a cut that calls for
\* two and a mute
C9_Witness ==
    /\ pc = "ffmpeg"
    /\ VerbsOf(actions) = <<CutVerb, CutVerb, MuteVerb>>
    /\ HasForm("range") = 3
    /\ segmentCounter = 7

IsConcat(st) == st.op = "concat"

\* a label "video n" or "audio n", as against outv / outa
Numbered(label) == label.name \in {"video", "audio"}

\* the statements before the q-th that write the label
WritesBefore(label, q) == {k \in 1..(q - 1) : s[k].vout = label \/ s[k].aout = label}

\* the concats that read the label
Readers(label) ==
    {k \in DOMAIN s : IsConcat(s[k]) /\ label \in {s[k].vin1, s[k].vin2, s[k].ain1, s[k].ain2}}

\* the label of the segment accumulated before the q-th statement: what the
\* last concat before it wrote, or the initial trim when there is none
RECURSIVE AccumulatedBefore(_)
AccumulatedBefore(q) ==
    IF q <= 2 THEN 1 ELSE IF IsConcat(s[q - 1]) THEN q - 1 ELSE AccumulatedBefore(q - 1)

\* the state part of C12
LabelsInOrder ==
    /\ pc = "build" => (segmentCounter = 0 /\ s = <<>>)
    /\ Compiling =>
        /\ segmentCounter >= 0
        /\ s[1].vout = vidSegment(0) /\ s[1].aout = audSegment(0)
        /\ \A q \in DOMAIN s :
              /\ s[q].vout.n = s[q].aout.n
              /\ Numbered(s[q].vout) =>
                    /\ s[q].vout = vidSegment(q - 1) /\ s[q].aout = audSegment(q - 1)
                    /\ s[q].vout.n <= segmentCounter
                    /\ WritesBefore(s[q].vout, q) = {} /\ WritesBefore(s[q].aout, q) = {}
              /\ ~Numbered(s[q].vout) =>
                    /\ pc = "ffmpeg" /\ q = Len(s) /\ IsConcat(s[q])
                    /\ s[q].vout.name = "outv" /\ s[q].aout.name = "outa"
              /\ IsConcat(s[q]) =>
                    /\ q > 2 /\ IsTrim(s[q - 1])
                    /\ s[q].vin1 = s[AccumulatedBefore(q - 1)].vout
                    /\ s[q].ain1 = s[AccumulatedBefore(q - 1)].aout
                    /\ s[q].vin2 = s[q - 1].vout /\ s[q].ain2 = s[q - 1].aout
                    /\ s[q].vin1 # s[q].vin2 /\ s[q].ain1 # s[q].ain2
              /\ Numbered(s[q].vout) =>
                    /\ Cardinality(Readers(s[q].vout)) <= 1
                    /\ Cardinality(Readers(s[q].aout)) <= 1
                    /\ \A k \in Readers(s[q].vout) \cup Readers(s[q].aout) : k > q
                    /\ (pc = "ffmpeg" \/ q < Len(s)) =>
                          /\ Cardinality(Readers(s[q].vout)) = 1
                          /\ Cardinality(Readers(s[q].aout)) = 1
        /\ pc = "ffmpeg" => (s[Len(s)].vout.name = "outv" /\ segmentCounter = Len(s) - 2)
        /\ pc = "buildLoop" => segmentCounter = Len(s) - 1

\* C12: the counter starts at 0 and never decreases, and the expression only
\* grows; the q-th statement writes the label q - 1 on both paths, which no
\* statement before it writes and which is at most the counter; a concat
\* (the last one, into outv / outa, included) reads the label of the
\* segment accumulated so far and the label of the trim right before it,
\* both written earlier; every numbered label is read by one concat only,
\* after it is written, and by exactly one once it is no longer the
\* accumulated segment of an unfinished expression.
C12_LabelsDefinedOnceUsedOnce ==
    /\ [](LabelsInOrder)
    /\ [][/\ segmentCounter' >= segmentCounter
          /\ Len(s') >= Len(s) /\ SubSeq(s', 1, Len(s)) = s]_vars

\* the complete expression of a cut, a mute and a cut: nine statements,
\* the last concatenating the labels 6 and 7 into outv / outa
C12_Witness ==
    /\ pc = "ffmpeg"
    /\ VerbsOf(actions) = <<CutVerb, MuteVerb, CutVerb>>
    /\ Len(s) = 9
    /\ segmentCounter = 7
    /\ s[9].vin1 = vidSegment(6) /\ s[9].vin2 = vidSegment(7)
    /\ s[9].vout.name = "outv"

(***************************************************************************)
(* Properties of the lexer                                                 *)
(***************************************************************************)

\* getTokens has returned
Lexed == calls # <<>>

\* the tokens main holds that come from line k of the input
TokensOfLine(k) == LET FromLine(tk) == tk.linePos = k IN SelectSeq(tokens, FromLine)

HasComment(line) == FirstHash(line, 1) > 0

\* the state of the scan of line k when it meets the first '#' of the line
AtComment(k) == LexChars(LineStart(k, <<>>), BeforeComment(input[k]), 0, k)

\* C13: for a line with a '#', whatever the field the '#' is met in, the
\* tokens of the line are the ones appended before the '#': the token being
\* accumulated at the '#' is in no token (so the line gives one token less
\* than the same line cut at the '#' when that token is not empty), nothing
\* after the '#' is, and the next line is lexed from the verb field with a
\* new token, as it is when lexed alone.
C13_CommentAbandonsLine ==
    Lexed =>
        \A k \in DOMAIN input :
            HasComment(input[k]) =>
                /\ TokensOfLine(k) = AtComment(k).tokens
                /\ (AtComment(k).tkn.val # <<>> /\ ~AtComment(k).left) =>
                      LexLine(BeforeComment(input[k]), k, <<>>).tokens
                          = Append(TokensOfLine(k),
                                   [AtComment(k).tkn EXCEPT !.val = TrimSpace(AtComment(k).tkn.val)])
                /\ \A n \in DOMAIN TokensOfLine(k) :
                      /\ TokensOfLine(k)[n].charPos < FirstHash(input[k], 1)
                      /\ \A c \in DOMAIN TokensOfLine(k)[n].val : TokensOfLine(k)[n].val[c] # "#"
                /\ k < Len(input) =>
                      TokensOfLine(k + 1) = LexLine(input[k + 1], k + 1, <<>>).tokens

\* a '#' met inside an unterminated reason, with a token being accumulated:
\* the line gives its verb, start and end only, and the next line its tokens
C13_Witness ==
    /\ Lexed
    /\ Len(input) = 2
    /\ HasComment(input[1])
    /\ AtComment(1).field = "reason"
    /\ AtComment(1).tkn.val # <<>>
    /\ ~AtComment(1).left
    /\ Len(TokensOfLine(1)) = 3
    /\ Len(TokensOfLine(2)) = 4

(***************************************************************************)
(* Properties of the compiler: the segments between the actions            *)
(***************************************************************************)

\* the statements that the loop body appended for the n-th action; the
\* initial trim is the first statement, and each trim of the loop comes
\* with its concat (none when the expression is shorter than that)
StatementsOf(n) ==
    LET lo == 2 + 2 * TrimsUpTo(VerbsOf(actions), n - 1)
        hi == 1 + 2 * TrimsUpTo(VerbsOf(actions), n)
    IN  IF hi <= Len(s) THEN SubSeq(s, lo, hi) ELSE <<>>

\* the statement is a trim of the original media over the interval between
\* the action n - 1 and the action n, as SecondString renders it
CoversGapBefore(st, n) ==
    /\ IsTrim(st) /\ st.form = "range"
    /\ st.vin = "0:v" /\ st.ain = "0:a"
    /\ st.vstart = SecondString(actions[n - 1].end) /\ st.astart = st.vstart
    /\ st.vend = SecondString(actions[n].start) /\ st.aend = st.vend

\* the n-th action is a cut that follows a cut, both compiled
CutAfterCut(n) ==
    n \in 2..Len(Compiled) /\ IsCut(actions[n - 1]) /\ IsCut(actions[n])

\* C14 as stated: for two consecutive Cut actions no statement emitted for
\* either of them is a trim of the original media over the interval
\* between them.
C14_AsStated ==
    Compiling =>
        \A n \in DOMAIN actions :
            CutAfterCut(n) =>
                \A st \in {StatementsOf(n - 1)[k] : k \in DOMAIN StatementsOf(n - 1)}
                          \cup {StatementsOf(n)[k] : k \in DOMAIN StatementsOf(n)} :
                    ~CoversGapBefore(st, n)

\* C14, amended: for two consecutive Cut actions the first emits no "after"
\* segment (it emits its "before" segment only, when it is not the first
\* action) and the second emits a "before" segment, which is a trim of the
\* original media over the interval between the two cuts followed by its
\* concat onto the accumulated segment; the interval between two cuts is
\* kept, the cuts do not fuse.
C14_GapBetweenCutsKept ==
    Compiling =>
        \A n \in DOMAIN actions :
            CutAfterCut(n) =>
                /\ Len(StatementsOf(n - 1)) = (IF n - 1 > 1 THEN 2 ELSE 0)
                /\ \A k \in DOMAIN StatementsOf(n - 1) :
                      ~CoversGapBefore(StatementsOf(n - 1)[k], n)
                /\ n - 1 > 1 => CoversGapBefore(StatementsOf(n - 1)[1], n - 1)
                /\ Len(StatementsOf(n)) >= 2
                /\ CoversGapBefore(StatementsOf(n)[1], n)
                /\ IsConcat(StatementsOf(n)[2])
                /\ StatementsOf(n)[2].vin2 = StatementsOf(n)[1].vout
                /\ StatementsOf(n)[2].ain2 = StatementsOf(n)[1].aout

\* the complete expression of a mute and two cuts, with an interval between
\* the cuts that is not empty as rendered
C14_Witness ==
    /\ pc = "ffmpeg"
    /\ VerbsOf(actions) = <<MuteVerb, CutVerb, CutVerb>>
    /\ CutAfterCut(3)
    /\ SecondString(actions[2].end) < SecondString(actions[3].start)
    /\ CoversGapBefore(StatementsOf(3)[1], 3)

\* C15: every trim of the expression, the initial one included, carries
\* the reset of the presentation timestamps (setpts=PTS-STARTPTS on the
\* video path, asetpts=PTS-STARTPTS on the audio path) before its label.
C15_EveryTrimResetsTimestamps ==
    Compiling => \A k \in DOMAIN s : IsTrim(s[k]) => s[k].setpts

(***************************************************************************)
(* Properties of the action builder                                        *)
(***************************************************************************)

\* getActions has returned
Built == calls # <<>> /\ calls[Len(calls)] = "getActions"

\* the lines that have a token, in file order
TokenLines == SortedSeq({tokens[k].linePos : k \in DOMAIN tokens})

\* the k-th token of a line is one the action builder accepts at that place
TokenOk(tk, k) ==
    CASE k = 1 -> ToLower(tk.val) \in DOMAIN verbs
      [] k = 2 -> ParseTime(tk.val).err = "none"
      [] k = 3 -> ParseTime(tk.val).err = "none"
      [] k = 4 -> ParseReason(tk.val).err = "none"
      [] OTHER -> FALSE

\* the first index in the token list of a token that is not accepted at its
\* place on its line, 0 when there is none
RECURSIVE FirstBadToken(_)
FirstBadToken(k) ==
    IF k > Len(tokens) THEN 0
    ELSE LET before == {j \in 1..(k - 1) : tokens[j].linePos = tokens[k].linePos} IN
         IF TokenOk(tokens[k], Cardinality(before) + 1) THEN FirstBadToken(k + 1) ELSE k

\* the place of the k-th token on its line
PlaceOf(k) == Cardinality({j \in 1..k : tokens[j].linePos = tokens[k].linePos})

\* C16: when getActions returns without error there is one action for each
\* line that has a token, in file order, and none for the other lines; the
\* tokens of an action are the tokens of its line, at most four, in order;
\* the verb is the one spelled by the first, the start and the end are the
\* times of the second and the third, the reason that of the fourth, and
\* what has no token is the zero value.  getActions fails exactly when a
\* token is not accepted at its place, and when that token is the fifth of
\* a line the error is the unexpected-token-count error.
C16_OneActionPerTokenLine ==
    Built =>
        /\ pc = "validate" <=> FirstBadToken(1) = 0
        /\ pc = "fatal" <=> FirstBadToken(1) # 0
        /\ (FirstBadToken(1) # 0 /\ PlaceOf(FirstBadToken(1)) = 5) =>
              err = MkErr("unexpected token count")
        /\ err = MkErr("unexpected token count") => PlaceOf(FirstBadToken(1)) = 5
        /\ pc = "validate" =>
              /\ Len(actions) = Len(TokenLines)
              /\ \A n \in DOMAIN actions :
                    LET a == actions[n] IN
                    /\ a.tokens = TokensOfLine(TokenLines[n])
                    /\ Len(a.tokens) \in 1..4
                    /\ a.verb = verbs[ToLower(a.tokens[1].val)]
                    /\ a.start = (IF Len(a.tokens) >= 2 THEN ParseTime(a.tokens[2].val).time
                                  ELSE ZeroTime)
                    /\ a.end = (IF Len(a.tokens) >= 3 THEN ParseTime(a.tokens[3].val).time
                                ELSE ZeroTime)
                    /\ a.reason = (IF Len(a.tokens) >= 4 THEN ParseReason(a.tokens[4].val).reason
                                   ELSE ZeroReason)

\* two actions built from the lines 1 and 3 of a token list whose line 2
\* has no token, the second action from four tokens
C16_Witness ==
    /\ Built
    /\ pc = "validate"
    /\ TokenLines = <<1, 3>>
    /\ Len(actions) = 2
    /\ Len(actions[1].tokens) = 2
    /\ Len(actions[2].tokens) = 4
    /\ actions[2].verb = MuteVerb
    /\ actions[2].reason = [Category |-> <<"r">>, Specifier |-> <<"x">>]

(***************************************************************************)
(* Properties of the lexer: positions and fields                           *)
(***************************************************************************)

\* C17: every token that getTokens emits carries the number of its line
\* (from 1) and a column of at least 1 that is the index (from 1) in the
\* line of the first character of its value, whatever its field, a reason
\* closed by ')' with nothing in it included.
C17_TokenPositions ==
    Lexed =>
        \A k \in DOMAIN tokens :
            LET tk == tokens[k] IN
            /\ tk.linePos \in DOMAIN input
            /\ tk.charPos >= 1
            /\ tk.charPos <= Len(input[tk.linePos])
            /\ tk.val # <<>> => input[tk.linePos][tk.charPos] = tk.val[1]

(***************************************************************************)
(* Properties of the validator and the compiler: the annotation            *)
(***************************************************************************)

\* the reasons of "" and "(r:x)"
Reasons == {ZeroReason, [Category |-> <<"r">>, Specifier |-> <<"x">>]}

\* the list with the reasons rs in place of its own
WithReasons(list, rs) == [n \in DOMAIN list |-> [list[n] EXCEPT !.reason = rs[n]]]

\* the lists that differ from the list of main in their reasons only
SameButReasons == {WithReasons(actions, rs) : rs \in [DOMAIN actions -> Reasons]}

\* C18: a list that differs from the list of main in its annotations only
\* gets from validateSegmentTimes the error that main's list got, and from
\* buildComplexFilter the expression, the counter and the error that
\* main's list got.
C18_AnnotationNeverRead ==
    /\ Validated =>
          \A other \in SameButReasons : validateSegmentTimes(other) = err
    /\ pc = "ffmpeg" =>
          \A other \in SameButReasons :
              buildComplexFilter(other)
                  = [s |-> filterCplx, segmentCounter |-> segmentCounter, err |-> "none"]

\* the expression of a list of three actions with a mute, which is also
\* the expression of the same list with a reason on every action
C18_Witness ==
    /\ pc = "ffmpeg"
    /\ Len(actions) = 3
    /\ \E n \in DOMAIN actions : IsMute(actions[n])
    /\ LET other == WithReasons(actions, [n \in DOMAIN actions |->
                                             [Category |-> <<"r">>, Specifier |-> <<"x">>]])
       IN  /\ other # actions
           /\ other \in SameButReasons
           /\ buildComplexFilter(other).s = filterCplx

\* the fields, in the order of the grammar
Fields == <<"verb", "start", "end", "reason">>

\* the state of the scan of line k after its first j characters
AfterChars(k, j) == LexChars(LineStart(k, <<>>), SubSeq(input[k], 1, j), 0, k)

\* C19: at every point of the scan of a line the lexer is in one of the four
\* fields, the one after as many fields as it has appended tokens, so the
\* n-th token of a line is the token of the n-th field and the field never
\* goes back; after the ')' of a reason nothing is appended; a line gives at
\* most four tokens; getTokens never returns the unexpected-state error and
\* getActions, on the tokens of getTokens, never returns the
\* unexpected-token-count error.
C19_FieldsInOrder ==
    /\ \A k \in DOMAIN input :
          /\ \A j \in 0..Len(input[k]) :
                LET st == AfterChars(k, j) IN
                /\ st.err = "none"
                /\ Len(st.tokens) <= 4
                /\ st.field = Fields[IF Len(st.tokens) = 4 THEN 4 ELSE Len(st.tokens) + 1]
                /\ Len(st.tokens) = 4 => (st.left /\ st.tkn.val = <<>>)
                /\ j > 0 => SubSeq(st.tokens, 1, Len(AfterChars(k, j - 1).tokens))
                                = AfterChars(k, j - 1).tokens
          /\ Len(LexLine(input[k], k, <<>>).tokens) <= 4
    /\ Lexed =>
          /\ \A k \in DOMAIN input :
                /\ TokensOfLine(k) = LexLine(input[k], k, <<>>).tokens
                /\ Len(TokensOfLine(k)) <= 4
          /\ Len(tokens) <= 4 * Len(input)
          /\ err.kind \notin {"unexpected state", "unexpected token count"}
          /\ getActions(tokens).err # "unexpected token count"

\* a line with text after the ')' of its reason: it has given four tokens
\* and getActions has built its action
C19_Witness ==
    /\ Built
    /\ pc = "validate"
    /\ Len(input) = 1
    /\ ~HasComment(input[1])
    /\ \E j \in 1..(Len(input[1]) - 2) :
          /\ input[1][j] = ")"
          /\ AfterChars(1, j).left
          /\ ~IsSpace(input[1][j + 1])
    /\ Len(TokensOfLine(1)) = 4
    /\ Len(actions) = 1 /\ Len(actions[1].tokens) = 4

(***************************************************************************)
(* Properties of the compiler: the rendered times                          *)
(***************************************************************************)

\* C20: in the expression of a list that validateSegmentTimes accepted,
\* every trim with a start and an end (the segment of a Mute, the segment
\* before or after a Cut) has, as SecondString renders them, a start below
\* its end, on the video and on the audio path.
C20_RenderedSegmentsNonEmpty ==
    Compiling =>
        \A k \in DOMAIN s :
            (IsTrim(s[k]) /\ s[k].form = "range") =>
                (s[k].vstart < s[k].vend /\ s[k].astart < s[k].aend)

====
